---- MODULE Spec2Model ----
(***************************************************************************)
(* The streaming playback engine of senshukai: the Bubble Tea Model of    *)
(* main.go (Update, the commands it returns, the background frame loader  *)
(* and the frame channel), with the AudioPlayer of audio.go at the        *)
(* granularity of whole method calls.                                      *)
(*                                                                         *)
(* One Update call is one action.  A command returned by Update runs in   *)
(* a goroutine of its own; the message it produces reaches the event loop *)
(* in no guaranteed order relative to other commands' messages, so the    *)
(* commands and messages in flight are counters and bags.                  *)
(*                                                                         *)
(* A frame is represented by the index of the source image it was         *)
(* rendered from (the disk does not change while the program runs); the   *)
(* empty string a closed channel yields is EmptyFrame.                     *)
(***************************************************************************)
EXTENDS Integers, Sequences, FiniteSets, Bags, TLC

(* ---------------------------------------------------------------- bounds *)

\* Frames 1..BurstSize are the initial burst; the source loads 30
\* (main.go:296) and the model scales the burst down.
BurstSize == 1

\* Capacity of frameChan; the source allocates 100 (main.go:540) and the
\* model scales it down so that a full queue is reached.
ChanCap == 1

\* Number of frame files on disk.
MaxFrames == 3

\* How many times a resize may begin loading (each begins one burst load
\* and one background loader).
MaxStarts == 2

\* Tick commands armed at once.
MaxTicks == 2

\* waitForFrame commands pending at once.
MaxPolls == 1

\* frameLoadedMsg messages in flight at once.
MaxMsgs == 1

\* Longest frame sequence the model follows: every frame on disk and one
\* more entry.
MaxLen == MaxFrames + 1

\* Largest frame count of a cyclic-advance run.
MaxCycle == 5

\* Caption entries of a well-formed caption file.
MaxEntries == 2

\* Lines of a caption file of arbitrary lines.
MaxLines == 3

\* Frames of the video whose intro window is followed to its end.
IntroFrames == 920

\* Largest width and height of a source image.
MaxSrc == 2

\* Target widths and heights are 1, 2, .. 2^MaxDoublings: with a power of
\* two as divisor every float64 operation of the rasterizer is exact.
MaxDoublings == 2

(* ------------------------------------------------------- program values *)

\* The zero value received from a closed channel: the empty string.
EmptyFrame == 0

\* 14600*time.Millisecond, in milliseconds.
IntroMs == 14600

\* (1000 / 60) of updateSubtitle: integer constant division, in ms.
FrameMs == 1000 \div 60

\* The terminal sizes a WindowSizeMsg carries.
Sizes == { <<100, 30>> }

\* Embedded caption tracks as ParseSRT returns them (times in ms).
SubtitlesJA ==
  << [ID |-> 1, StartTime |-> 16, EndTime |-> 48, Text |-> "ja1"],
     [ID |-> 2, StartTime |-> 32, EndTime |-> 80, Text |-> "ja2"] >>

SubtitlesEN ==
  << [ID |-> 1, StartTime |-> 0, EndTime |-> 16, Text |-> "en1"],
     [ID |-> 2, StartTime |-> 64, EndTime |-> 64, Text |-> "en2"] >>

(* ------------------------------------------------------------ variables *)

VARIABLES
  \* Model (main.go:81-99)
  frames, currentFrame, frameCount, playing, width, height, loading,
  audioStarted, audioPlayer, audioEnabled, subtitleMode, currentSubtitle,
  showControls,
  \* frameChan: its buffer and whether it has been closed
  frameChan, chanClosed,
  \* AudioPlayer (audio.go:14-24): the playing and paused flags
  apPlaying, apPaused,
  \* commands running and messages in flight
  ticks, polls, frameMsgs, bursts, listens, startMsgs, loaders,
  \* the process: "running", "blocked" (the event loop is stuck inside an
  \* audio call), "crashed" (an unrecovered panic), "quit"
  proc,
  \* the frames directory: number of files, and the one that fails to
  \* load (0: none)
  total, failAt,
  \* history: how many times loading was begun; whether the last
  \* play/pause command was a pause
  started, userPaused,
  \* cyclic-advance runs: the starting cursor and the ticks applied
  cycStart, cycTicks,
  \* AudioPlayer at the grain of its lock (audio.go:14-24, 173-198): the
  \* holder of mu, the audio calls the running Update handler still has to
  \* make (the first with its position), the position of each
  \* monitorPlayback goroutine
  mu, call, dogs,
  \* a function applied on its own: its argument, its result, and whether
  \* it has returned
  arg, ret, done

modelVars == << frames, currentFrame, frameCount, playing, width, height,
                loading, audioStarted, audioPlayer, audioEnabled,
                subtitleMode, currentSubtitle, showControls >>

chanVars == << frameChan, chanClosed >>

audioVars == << apPlaying, apPaused >>

cmdVars == << ticks, polls, frameMsgs, bursts, listens, startMsgs, loaders >>

diskVars == << total, failAt >>

histVars == << started, userPaused >>

cycVars == << cycStart, cycTicks >>

lockVars == << mu, call, dogs >>

funVars == << arg, ret, done >>

\* The engine's variables.
engineVars == << modelVars, chanVars, audioVars, cmdVars, proc, diskVars,
                histVars, cycVars >>

vars == << engineVars, lockVars, funVars >>

(* -------------------------------------------------------- pure helpers *)

\* loadFrameAsASCII(getFrameFilename(i), ...) returns no error.
Loadable(i) == i >= 1 /\ i <= total /\ i # failAt

\* The loop of loadInitialFrames from index i on, acc being the frames
\* loaded so far: it breaks at the first frame that fails.
RECURSIVE BurstFrom(_, _)
BurstFrom(i, acc) ==
  IF i > BurstSize \/ ~Loadable(i)
  THEN acc
  ELSE BurstFrom(i + 1, Append(acc, i))

\* The frames a framesLoadedMsg carries.
LoadInitialFrames == BurstFrom(1, << >>)

\* The first index loadRemainingFrames loads.
FirstRemaining == BurstSize + 1

\* A faulty advance that stops at the last frame instead of wrapping;
\* C7_CyclicAdvance must reject it.
NextCursorClamped(c, F) == IF c + 1 >= F THEN F - 1 ELSE c + 1

\* The cursor after one tick over F frames.
NextCursor(c, F) == (c + 1) % F

\* videoTime of updateSubtitle, in ms.
VideoTime(c) == c * FrameMs

\* A faulty scan that takes an entry's end as exclusive;
\* C15_CaptionFirstMatch must reject it.
RECURSIVE FirstMatchExclusive(_, _, _)
FirstMatchExclusive(subs, i, t) ==
  IF i > Len(subs)
  THEN ""
  ELSE IF t >= subs[i].StartTime /\ t < subs[i].EndTime
       THEN subs[i].Text
       ELSE FirstMatchExclusive(subs, i + 1, t)

\* The scan of updateSubtitle from entry i on: the first match wins.
RECURSIVE FirstMatch(_, _, _)
FirstMatch(subs, i, t) ==
  IF i > Len(subs)
  THEN ""
  ELSE IF t >= subs[i].StartTime /\ t <= subs[i].EndTime
       THEN subs[i].Text
       ELSE FirstMatch(subs, i + 1, t)

\* updateSubtitle: the caption for cursor c in subtitle mode mode.
Caption(c, mode) ==
  IF mode = 0
  THEN ""
  ELSE FirstMatch(IF mode = 1 THEN SubtitlesJA ELSE SubtitlesEN, 1,
                  VideoTime(c))

\* updateSubtitle: the controls flag for cursor c.
Controls(c) == VideoTime(c) < IntroMs

(* ----------------------------------------------------------------- Init *)

Init ==
  /\ frames = << >>
  /\ currentFrame = 0
  /\ frameCount = 0
  /\ playing = FALSE
  /\ width = 80
  /\ height = 60
  /\ loading = FALSE
  /\ audioStarted = FALSE
  /\ audioPlayer = "nil"
  /\ audioEnabled \in BOOLEAN
  /\ subtitleMode = 0
  /\ currentSubtitle = ""
  /\ showControls = TRUE
  /\ frameChan = << >>
  /\ chanClosed = FALSE
  /\ apPlaying = FALSE
  /\ apPaused = FALSE
  /\ ticks = 0
  /\ polls = 0
  /\ frameMsgs = EmptyBag
  /\ bursts = 0
  /\ listens = 0
  /\ startMsgs = 0
  /\ loaders = EmptyBag
  /\ proc = "running"
  /\ total = MaxFrames
  /\ failAt \in 0..total
  /\ audioEnabled => failAt = 0
  /\ started = 0
  /\ userPaused = FALSE
  /\ cycStart = 0
  /\ cycTicks = 0
  /\ mu = "free"
  /\ call = << >>
  /\ dogs = EmptyBag
  /\ arg = 0
  /\ ret = 0
  /\ done = FALSE

(* ------------------------------------------------- AudioPlayer methods *)

\* Each is the pair << playing, paused >> the method leaves, given the
\* pair it finds.

\* AudioPlayer.Play
ApPlay(p, q) == IF p THEN << p, q >> ELSE << TRUE, FALSE >>

\* AudioPlayer.Pause
ApPause(p, q) == IF ~p \/ q THEN << p, q >> ELSE << p, TRUE >>

\* AudioPlayer.Resume
ApResume(p, q) == IF ~p \/ ~q THEN << p, q >> ELSE << p, FALSE >>

\* AudioPlayer.Stop
ApStop(p, q) == IF ~p THEN << p, q >> ELSE << FALSE, FALSE >>

\* AudioPlayer.IsPaused
ApIsPaused(p, q) == p /\ q

\* Resume hands a signal to the watchdog over the unbuffered resumeChan
\* while it holds the lock.
ResumeSends(p, q) == p /\ q

\* Stop and Close hand a signal over the unbuffered stopChan while they
\* hold the lock.
StopSends(p, q) == p

(* -------------------------------------------------- Update: key events *)

\* The audio calls of the " " key, playing being the new play state.
SpaceAudio(nowPlaying, p, q) ==
  IF nowPlaying
  THEN IF ApIsPaused(p, q) THEN ApResume(p, q) ELSE ApPlay(p, q)
  ELSE ApPause(p, q)

\* case " ": toggle play/pause.
KeySpace ==
  /\ proc = "running"
  /\ ~playing => ticks < MaxTicks
  /\ playing' = ~playing
  /\ IF audioPlayer = "open"
     THEN /\ apPlaying' = SpaceAudio(~playing, apPlaying, apPaused)[1]
          /\ apPaused' = SpaceAudio(~playing, apPlaying, apPaused)[2]
     ELSE UNCHANGED audioVars
  /\ ticks' = IF ~playing THEN ticks + 1 ELSE ticks
  /\ userPaused' = playing
  /\ UNCHANGED << frames, currentFrame, frameCount, width, height, loading,
                  audioStarted, audioPlayer, audioEnabled, subtitleMode,
                  currentSubtitle, showControls >>
  /\ UNCHANGED << chanVars, polls, frameMsgs, bursts, listens, startMsgs,
                  loaders, proc, diskVars, started, cycVars,
                  lockVars, funVars >>

\* case " ", the play branch calling Resume while the watchdog waits for
\* the lock: the send on resumeChan never completes and Update never
\* returns.
KeySpaceBlocks ==
  /\ proc = "running"
  /\ ~playing
  /\ audioPlayer = "open"
  /\ ApIsPaused(apPlaying, apPaused)
  /\ ResumeSends(apPlaying, apPaused)
  /\ apPaused' = FALSE
  /\ proc' = "blocked"
  /\ UNCHANGED << modelVars, chanVars, apPlaying, cmdVars, diskVars,
                  histVars, cycVars,
                  lockVars, funVars >>

\* A faulty "s" handler that leaves the stored caption in place;
\* C10_SubtitleCycle must reject it.
KeySubtitleKeepsCaption ==
  /\ proc = "running"
  /\ subtitleMode' = (subtitleMode + 1) % 3
  /\ UNCHANGED << frames, currentFrame, frameCount, playing, width, height,
                  loading, audioStarted, audioPlayer, audioEnabled,
                  currentSubtitle, showControls >>
  /\ UNCHANGED << chanVars, audioVars, cmdVars, proc, diskVars, histVars,
                  cycVars,
                  lockVars, funVars >>

\* case "s": cycle the subtitle mode.
KeySubtitle ==
  /\ proc = "running"
  /\ subtitleMode' = (subtitleMode + 1) % 3
  /\ currentSubtitle' = ""
  /\ UNCHANGED << frames, currentFrame, frameCount, playing, width, height,
                  loading, audioStarted, audioPlayer, audioEnabled,
                  showControls >>
  /\ UNCHANGED << chanVars, audioVars, cmdVars, proc, diskVars, histVars,
                  cycVars,
                  lockVars, funVars >>

\* The audio calls of the "r" key: Stop, then Play if the clock plays.
ResetAudio(isPlaying, p, q) ==
  IF isPlaying
  THEN ApPlay(ApStop(p, q)[1], ApStop(p, q)[2])
  ELSE ApStop(p, q)

\* A faulty "r" handler that also pauses the clock; C8_ResetEffect must
\* reject it.
KeyResetPauses ==
  /\ proc = "running"
  /\ currentFrame' = 0
  /\ playing' = FALSE
  /\ IF audioPlayer = "open"
     THEN /\ apPlaying' = ApStop(apPlaying, apPaused)[1]
          /\ apPaused' = ApStop(apPlaying, apPaused)[2]
     ELSE UNCHANGED audioVars
  /\ UNCHANGED << frames, frameCount, width, height, loading, audioStarted,
                  audioPlayer, audioEnabled, subtitleMode, currentSubtitle,
                  showControls >>
  /\ UNCHANGED << chanVars, cmdVars, proc, diskVars, histVars, cycVars,
                  lockVars, funVars >>

\* case "r": reset to the beginning.
KeyReset ==
  /\ proc = "running"
  /\ currentFrame' = 0
  /\ IF audioPlayer = "open"
     THEN /\ apPlaying' = ResetAudio(playing, apPlaying, apPaused)[1]
          /\ apPaused' = ResetAudio(playing, apPlaying, apPaused)[2]
     ELSE UNCHANGED audioVars
  /\ UNCHANGED << frames, frameCount, playing, width, height, loading,
                  audioStarted, audioPlayer, audioEnabled, subtitleMode,
                  currentSubtitle, showControls >>
  /\ UNCHANGED << chanVars, cmdVars, proc, diskVars, histVars, cycVars,
                  lockVars, funVars >>

\* case "r" calling Stop while the watchdog waits for the lock: the send
\* on stopChan never completes and Update never returns.
KeyResetBlocks ==
  /\ proc = "running"
  /\ audioPlayer = "open"
  /\ StopSends(apPlaying, apPaused)
  /\ apPlaying' = FALSE
  /\ apPaused' = FALSE
  /\ proc' = "blocked"
  /\ UNCHANGED << modelVars, chanVars, cmdVars, diskVars, histVars,
                  cycVars,
                  lockVars, funVars >>

\* case "q", "ctrl+c": close the audio player and quit.
KeyQuit ==
  /\ proc = "running"
  /\ proc' = "quit"
  /\ UNCHANGED << modelVars, chanVars, audioVars, cmdVars, diskVars,
                  histVars, cycVars,
                  lockVars, funVars >>

\* case "q" calling Close while the watchdog waits for the lock.
KeyQuitBlocks ==
  /\ proc = "running"
  /\ audioPlayer = "open"
  /\ StopSends(apPlaying, apPaused)
  /\ proc' = "blocked"
  /\ UNCHANGED << modelVars, chanVars, audioVars, cmdVars, diskVars,
                  histVars, cycVars,
                  lockVars, funVars >>

(* ------------------------------------------- Update: resize and loading *)

\* case tea.WindowSizeMsg: record the size; begin loading when no frame
\* is loaded and loading has not been acknowledged.
WindowSize ==
  /\ proc = "running"
  /\ \E sz \in Sizes :
       /\ width' = sz[1]
       /\ height' = sz[2]
  /\ IF frameCount = 0 /\ ~loading
     THEN /\ started < MaxStarts
          /\ bursts' = bursts + 1
          /\ listens' = listens + 1
          /\ started' = started + 1
     ELSE UNCHANGED << bursts, listens, started >>
  /\ UNCHANGED << frames, currentFrame, frameCount, playing, loading,
                  audioStarted, audioPlayer, audioEnabled, subtitleMode,
                  currentSubtitle, showControls >>
  /\ UNCHANGED << chanVars, audioVars, ticks, polls, frameMsgs, startMsgs,
                  loaders, proc, diskVars, userPaused, cycVars,
                  lockVars, funVars >>

\* The listenForFrames command: start the background loader and report
\* startLoadingMsg.
ListenForFrames ==
  /\ proc \in {"running", "blocked"}
  /\ listens > 0
  /\ listens' = listens - 1
  /\ loaders' = loaders (+) SetToBag({FirstRemaining})
  /\ startMsgs' = startMsgs + 1
  /\ UNCHANGED << modelVars, chanVars, audioVars, ticks, polls, frameMsgs,
                  bursts, proc, diskVars, histVars, cycVars,
                  lockVars, funVars >>

\* case startLoadingMsg.
StartLoadingMsg ==
  /\ proc = "running"
  /\ startMsgs > 0
  /\ startMsgs' = startMsgs - 1
  /\ loading' = TRUE
  /\ UNCHANGED << frames, currentFrame, frameCount, playing, width, height,
                  audioStarted, audioPlayer, audioEnabled, subtitleMode,
                  currentSubtitle, showControls >>
  /\ UNCHANGED << chanVars, audioVars, ticks, polls, frameMsgs, bursts,
                  listens, loaders, proc, diskVars, histVars, cycVars,
                  lockVars, funVars >>

\* A faulty burst-complete handler that marks the audio as started only
\* when NewAudioPlayer succeeds, so that a failure is tried again;
\* C13_AudioOnce must reject it.
FramesLoadedRetries(ok) ==
  /\ proc = "running"
  /\ bursts > 0
  /\ ticks < MaxTicks
  /\ polls < MaxPolls
  /\ bursts' = bursts - 1
  /\ frames' = LoadInitialFrames
  /\ frameCount' = Len(LoadInitialFrames)
  /\ loading' = TRUE
  /\ playing' = TRUE
  /\ IF audioEnabled /\ ~audioStarted
     THEN /\ audioPlayer' = IF ok THEN "open" ELSE audioPlayer
          /\ apPlaying' = IF ok THEN ApPlay(apPlaying, apPaused)[1]
                                ELSE apPlaying
          /\ apPaused' = IF ok THEN ApPlay(apPlaying, apPaused)[2]
                               ELSE apPaused
          /\ audioStarted' = ok
     ELSE /\ ok
          /\ UNCHANGED << audioPlayer, audioStarted, audioVars >>
  /\ ticks' = ticks + 1
  /\ polls' = polls + 1
  /\ UNCHANGED << currentFrame, width, height, audioEnabled, subtitleMode,
                  currentSubtitle, showControls >>
  /\ UNCHANGED << chanVars, frameMsgs, listens, startMsgs, loaders, proc,
                  diskVars, histVars, cycVars,
                  lockVars, funVars >>

\* case framesLoadedMsg, the burst loaded by loadInitialFrames arriving:
\* ok tells whether NewAudioPlayer succeeds, should it be called.
FramesLoaded(ok) ==
  /\ proc = "running"
  /\ bursts > 0
  /\ ticks < MaxTicks
  /\ polls < MaxPolls
  /\ bursts' = bursts - 1
  /\ frames' = LoadInitialFrames
  /\ frameCount' = Len(LoadInitialFrames)
  /\ loading' = TRUE
  /\ playing' = TRUE
  /\ IF audioEnabled /\ ~audioStarted
     THEN /\ audioPlayer' = IF ok THEN "open" ELSE audioPlayer
          /\ apPlaying' = IF ok THEN ApPlay(apPlaying, apPaused)[1]
                                ELSE apPlaying
          /\ apPaused' = IF ok THEN ApPlay(apPlaying, apPaused)[2]
                               ELSE apPaused
          /\ audioStarted' = TRUE
     ELSE /\ ok
          /\ UNCHANGED << audioPlayer, audioStarted, audioVars >>
  /\ ticks' = ticks + 1
  /\ polls' = polls + 1
  /\ UNCHANGED << currentFrame, width, height, audioEnabled, subtitleMode,
                  currentSubtitle, showControls >>
  /\ UNCHANGED << chanVars, frameMsgs, listens, startMsgs, loaders, proc,
                  diskVars, histVars, cycVars,
                  lockVars, funVars >>

FramesLoadedMsg == \E ok \in BOOLEAN : FramesLoaded(ok)

(* ------------------------------------------------------- Update: ticks *)

\* The Model fields a tick writes while playing with frames: the cursor
\* and, in updateSubtitle, the caption and the controls flag.
TickUpdate ==
  /\ currentFrame' = NextCursor(currentFrame, frameCount)
  /\ currentSubtitle' = Caption(currentFrame', subtitleMode)
  /\ showControls' = Controls(currentFrame')

\* case tickMsg while playing with frames: advance, recompute the caption
\* and the controls flag, re-arm the tick and poll the queue.
TickAdvance ==
  /\ proc = "running"
  /\ ticks > 0
  /\ playing /\ frameCount > 0
  /\ polls < MaxPolls
  /\ TickUpdate
  /\ polls' = polls + 1
  /\ UNCHANGED << frames, frameCount, playing, width, height, loading,
                  audioStarted, audioPlayer, audioEnabled, subtitleMode >>
  /\ UNCHANGED << chanVars, audioVars, ticks, frameMsgs, bursts, listens,
                  startMsgs, loaders, proc, diskVars, histVars, cycVars,
                  lockVars, funVars >>

\* A faulty tick handler that advances the cursor whatever the play
\* state; C9_PausedCursor must reject it.
TickIdleAdvances ==
  /\ proc = "running"
  /\ ticks > 0
  /\ ~(playing /\ frameCount > 0)
  /\ frameCount > 0
  /\ ticks' = ticks - 1
  /\ currentFrame' = NextCursor(currentFrame, frameCount)
  /\ UNCHANGED << frames, frameCount, playing, width, height, loading,
                  audioStarted, audioPlayer, audioEnabled, subtitleMode,
                  currentSubtitle, showControls >>
  /\ UNCHANGED << chanVars, audioVars, polls, frameMsgs, bursts, listens,
                  startMsgs, loaders, proc, diskVars, histVars, cycVars,
                  lockVars, funVars >>

\* case tickMsg while paused or without frames: falls through to
\* return m, nil.
TickIdle ==
  /\ proc = "running"
  /\ ticks > 0
  /\ ~(playing /\ frameCount > 0)
  /\ ticks' = ticks - 1
  /\ UNCHANGED << modelVars, chanVars, audioVars, polls, frameMsgs, bursts,
                  listens, startMsgs, loaders, proc, diskVars, histVars,
                  cycVars,
                  lockVars, funVars >>

(* ------------------------------------------------- the queue's consumer *)

\* What the select of waitForFrame receives: << whether a message is
\* produced, its frame, the buffer left >>.
Receive(buf, closed) ==
  IF Len(buf) > 0
  THEN << TRUE, Head(buf), Tail(buf) >>
  ELSE IF closed
       THEN << TRUE, EmptyFrame, buf >>
       ELSE << FALSE, EmptyFrame, buf >>

\* The waitForFrame command: one non-blocking receive.
WaitForFrame ==
  /\ proc \in {"running", "blocked"}
  /\ polls > 0
  /\ polls' = polls - 1
  /\ LET r == Receive(frameChan, chanClosed) IN
       /\ frameChan' = r[3]
       /\ IF r[1]
          THEN /\ BagCardinality(frameMsgs) < MaxMsgs
               /\ frameMsgs' = frameMsgs (+) SetToBag({r[2]})
          ELSE UNCHANGED frameMsgs
  /\ UNCHANGED << modelVars, chanClosed, audioVars, ticks, bursts, listens,
                  startMsgs, loaders, proc, diskVars, histVars, cycVars,
                  lockVars, funVars >>

\* case frameLoadedMsg carrying frame f.
FrameLoaded(f) ==
  /\ proc = "running"
  /\ BagIn(f, frameMsgs)
  /\ Len(frames) < MaxLen
  /\ frameMsgs' = frameMsgs (-) SetToBag({f})
  /\ frames' = Append(frames, f)
  /\ frameCount' = Len(frames')
  /\ UNCHANGED << currentFrame, playing, width, height, loading,
                  audioStarted, audioPlayer, audioEnabled, subtitleMode,
                  currentSubtitle, showControls >>
  /\ UNCHANGED << chanVars, audioVars, ticks, polls, bursts, listens,
                  startMsgs, loaders, proc, diskVars, histVars, cycVars,
                  lockVars, funVars >>

FrameLoadedMsg == \E f \in BagToSet(frameMsgs) : FrameLoaded(f)

(* ------------------------------------------------ the background loader *)

\* loadRemainingFrames at index i: the loop goes on with frame i.
LoaderContinues(i) == i <= total /\ Loadable(i)

\* One iteration of the loop: frame i is loaded and sent on the channel.
\* The send waits while the buffer is full.
LoaderSend(i) ==
  /\ proc \in {"running", "blocked"}
  /\ BagIn(i, loaders)
  /\ LoaderContinues(i)
  /\ ~chanClosed
  /\ Len(frameChan) < ChanCap
  /\ frameChan' = Append(frameChan, i)
  /\ loaders' = (loaders (-) SetToBag({i})) (+) SetToBag({i + 1})
  /\ UNCHANGED << modelVars, chanClosed, audioVars, ticks, polls, frameMsgs,
                  bursts, listens, startMsgs, proc, diskVars, histVars,
                  cycVars,
                  lockVars, funVars >>

\* The loop ends (all frames sent, or frame i fails): close(frameChan).
LoaderClose(i) ==
  /\ proc \in {"running", "blocked"}
  /\ BagIn(i, loaders)
  /\ ~LoaderContinues(i)
  /\ ~chanClosed
  /\ chanClosed' = TRUE
  /\ loaders' = loaders (-) SetToBag({i})
  /\ UNCHANGED << modelVars, frameChan, audioVars, ticks, polls, frameMsgs,
                  bursts, listens, startMsgs, proc, diskVars, histVars,
                  cycVars,
                  lockVars, funVars >>

\* A send on, or a second close of, a channel another loader has closed:
\* a run-time panic in a goroutine nothing recovers.
LoaderPanics(i) ==
  /\ proc \in {"running", "blocked"}
  /\ BagIn(i, loaders)
  /\ chanClosed
  /\ proc' = "crashed"
  /\ UNCHANGED << modelVars, chanVars, audioVars, cmdVars, diskVars,
                  histVars, cycVars,
                  lockVars, funVars >>

LoaderStep ==
  \E i \in BagToSet(loaders) :
    LoaderSend(i) \/ LoaderClose(i) \/ LoaderPanics(i)

(* ------------------------------------------------- the audio's watchdog *)

\* monitorPlayback finds the device no longer playing: the track ran to
\* its end.
AudioFinished ==
  /\ proc = "running"
  /\ audioPlayer = "open"
  /\ apPlaying /\ ~apPaused
  /\ apPlaying' = FALSE
  /\ UNCHANGED << modelVars, chanVars, apPaused, cmdVars, proc, diskVars,
                  histVars, cycVars,
                  lockVars, funVars >>

(* ----------------------------------------------------------------- Spec *)

Next ==
  \/ KeySpace
  \/ KeySpaceBlocks
  \/ KeySubtitle
  \/ KeyReset
  \/ KeyResetBlocks
  \/ KeyQuit
  \/ KeyQuitBlocks
  \/ WindowSize
  \/ ListenForFrames
  \/ StartLoadingMsg
  \/ FramesLoadedMsg
  \/ TickAdvance
  \/ TickIdle
  \/ WaitForFrame
  \/ FrameLoadedMsg
  \/ LoaderStep
  \/ AudioFinished

Spec == Init /\ [][Next]_vars

\* The same with the scheduling the runtime gives: a goroutine that can
\* run does run, a message that was sent is handled.  Key presses and
\* resizes carry no obligation.
Fairness ==
  /\ WF_vars(ListenForFrames)
  /\ WF_vars(StartLoadingMsg)
  /\ WF_vars(FramesLoadedMsg)
  /\ WF_vars(TickAdvance)
  /\ WF_vars(TickIdle)
  /\ WF_vars(WaitForFrame)
  /\ WF_vars(FrameLoadedMsg)
  /\ WF_vars(LoaderStep)

FairSpec == Spec /\ Fairness

(* -------------------------------------------------- cyclic-advance runs *)

\* A ready-playing engine with F frames and the cursor at c, in subtitle
\* mode mode, the queue open and empty while the background loader is
\* busy rendering frame F + 1.
CycleInit ==
  \E F \in 1..MaxCycle : \E c \in 0..(F - 1) : \E mode \in 0..2 :
    /\ frames = [i \in 1..F |-> i]
    /\ currentFrame = c
    /\ frameCount = F
    /\ playing = TRUE
    /\ width = 80
    /\ height = 60
    /\ loading = TRUE
    /\ audioStarted = FALSE
    /\ audioPlayer = "nil"
    /\ audioEnabled = FALSE
    /\ subtitleMode = mode
    /\ currentSubtitle = Caption(c, mode)
    /\ showControls = Controls(c)
    /\ frameChan = << >>
    /\ chanClosed = FALSE
    /\ apPlaying = FALSE
    /\ apPaused = FALSE
    /\ ticks = 1
    /\ polls = 0
    /\ frameMsgs = EmptyBag
    /\ bursts = 0
    /\ listens = 0
    /\ startMsgs = 0
    /\ loaders = SetToBag({F + 1})
    /\ proc = "running"
    /\ total = F + 1
    /\ failAt = 0
    /\ started = 1
    /\ userPaused = FALSE
    /\ cycStart = c
    /\ cycTicks = 0
    /\ mu = "free"
    /\ call = << >>
    /\ dogs = EmptyBag
    /\ arg = 0
    /\ ret = 0
    /\ done = FALSE

\* One tick of the run, its poll finding the queue empty: at most
\* frameCount ticks are applied.
CycleTick ==
  /\ proc = "running"
  /\ ticks > 0
  /\ playing /\ frameCount > 0
  /\ cycTicks < frameCount
  /\ TickUpdate
  /\ cycTicks' = cycTicks + 1
  /\ UNCHANGED << frames, frameCount, playing, width, height, loading,
                  audioStarted, audioPlayer, audioEnabled, subtitleMode >>
  /\ UNCHANGED << chanVars, audioVars, cmdVars, proc, diskVars, histVars,
                  cycStart, lockVars, funVars >>

CycleNext == CycleTick

SpecCycle == CycleInit /\ [][CycleNext]_vars

(* ------------------------------------- the AudioPlayer under its lock *)

\* The AudioPlayer at the grain of mu, stopChan and resumeChan.  mu is
\* "free", "cmd" (the method at the head of call holds it and runs),
\* "send" (that method holds it, blocked at its send), "exit" (that
\* method holds it, the deferred Unlock to come) or "dog" (a
\* monitorPlayback goroutine holds it).  A monitorPlayback goroutine is at
\* "select", at "lock" (it took the default branch and waits for mu), at
\* "check" (it holds mu) or at "sleep".

\* The engine in the framesLoadedMsg handler, NewAudioPlayer having
\* returned a player, about to call Play.
AudioInit ==
  /\ total = MaxFrames
  /\ failAt = 0
  /\ frames = LoadInitialFrames
  /\ currentFrame = 0
  /\ frameCount = Len(LoadInitialFrames)
  /\ playing = TRUE
  /\ width \in { sz[1] : sz \in Sizes }
  /\ height \in { sz[2] : sz \in Sizes }
  /\ loading = TRUE
  /\ audioStarted = TRUE
  /\ audioPlayer = "open"
  /\ audioEnabled = TRUE
  /\ subtitleMode = 0
  /\ currentSubtitle = ""
  /\ showControls = TRUE
  /\ frameChan = << >>
  /\ chanClosed = FALSE
  /\ apPlaying = FALSE
  /\ apPaused = FALSE
  /\ ticks = 0
  /\ polls = 0
  /\ frameMsgs = EmptyBag
  /\ bursts = 0
  /\ listens = 0
  /\ startMsgs = 0
  /\ loaders = SetToBag({FirstRemaining})
  /\ proc = "running"
  /\ started = 1
  /\ userPaused = FALSE
  /\ cycStart = 0
  /\ cycTicks = 0
  /\ mu = "free"
  /\ call = << "Play" >>
  /\ dogs = EmptyBag
  /\ arg = 0
  /\ ret = 0
  /\ done = FALSE

\* What the audio steps leave alone.
AudioFrame ==
  UNCHANGED << frames, currentFrame, frameCount, width, height, loading,
               audioStarted, audioPlayer, audioEnabled, subtitleMode,
               currentSubtitle, showControls, chanVars, cmdVars, diskVars,
               histVars, cycVars, funVars >>

\* case " " up to its first audio call.
AudioKeySpace ==
  /\ proc = "running"
  /\ call = << >>
  /\ playing' = ~playing
  /\ call' = IF ~playing THEN << "IsPaused" >> ELSE << "Pause" >>
  /\ UNCHANGED << audioVars, proc, mu, dogs >>
  /\ AudioFrame

\* case "r" up to its first audio call.
AudioKeyReset ==
  /\ proc = "running"
  /\ call = << >>
  /\ call' = IF playing THEN << "Stop", "Play" >> ELSE << "Stop" >>
  /\ UNCHANGED << playing, audioVars, proc, mu, dogs >>
  /\ AudioFrame

\* case "q", "ctrl+c" up to its audio call.
AudioKeyQuit ==
  /\ proc = "running"
  /\ call = << >>
  /\ call' = << "Close" >>
  /\ UNCHANGED << playing, audioVars, proc, mu, dogs >>
  /\ AudioFrame

\* The method at the head of call sends on stopChan or resumeChan.
Sends(op, p, q) ==
  CASE op = "Resume" -> ResumeSends(p, q)
    [] op = "Stop" -> StopSends(p, q)
    [] op = "Close" -> StopSends(p, q)
    [] OTHER -> FALSE

\* The flags a method leaves: those it writes before its send.
Flags(op, p, q) ==
  CASE op = "Play" -> ApPlay(p, q)
    [] op = "Pause" -> ApPause(p, q)
    [] op = "Resume" -> ApResume(p, q)
    [] op = "Stop" -> ApStop(p, q)
    [] OTHER -> << p, q >>

\* The calls left when the head of call returns: the " " handler calls
\* Resume or Play as IsPaused answers.
Rest(op, p, q) ==
  IF op = "IsPaused"
  THEN << IF ApIsPaused(p, q) THEN "Resume" ELSE "Play" >>
  ELSE Tail(call)

\* ap.mu.Lock() of the method at the head of call.
CallLock ==
  /\ proc = "running"
  /\ call # << >>
  /\ mu = "free"
  /\ mu' = "cmd"
  /\ UNCHANGED << playing, audioVars, proc, call, dogs >>
  /\ AudioFrame

\* The method at the head of call runs under mu to its send, where it
\* waits, or to its end; Play starts a monitorPlayback goroutine.
CallBody ==
  /\ proc = "running"
  /\ call # << >>
  /\ mu = "cmd"
  /\ LET op == Head(call)
         fl == Flags(op, apPlaying, apPaused)
     IN /\ apPlaying' = fl[1]
        /\ apPaused' = fl[2]
        /\ IF Sends(op, apPlaying, apPaused)
           THEN /\ mu' = "send"
                /\ UNCHANGED << call, dogs, proc >>
           ELSE /\ mu' = "exit"
                /\ dogs' = IF op = "Play" /\ ~apPlaying
                           THEN dogs (+) SetToBag({"select"})
                           ELSE dogs
                /\ UNCHANGED << call, proc >>
  /\ UNCHANGED playing
  /\ AudioFrame

\* monitorPlayback's select with a method blocked at its send: the
\* goroutine receives.  A stop signal ends it, a resume signal sends it
\* round the loop.
DogReceives ==
  /\ proc = "running"
  /\ BagIn("select", dogs)
  /\ mu = "send"
  /\ dogs' = IF Head(call) = "Resume"
             THEN dogs
             ELSE dogs (-) SetToBag({"select"})
  /\ mu' = "exit"
  /\ UNCHANGED << playing, audioVars, proc, call >>
  /\ AudioFrame

\* The deferred ap.mu.Unlock() and the method's return; Close returning
\* ends the program.
CallReturn ==
  /\ proc = "running"
  /\ mu = "exit"
  /\ mu' = "free"
  /\ call' = Rest(Head(call), apPlaying, apPaused)
  /\ proc' = IF Head(call) = "Close" THEN "quit" ELSE proc
  /\ UNCHANGED << playing, audioVars, dogs >>
  /\ AudioFrame

\* monitorPlayback's select with nothing to receive: the default branch,
\* which goes for mu.
DogDefault ==
  /\ proc = "running"
  /\ BagIn("select", dogs)
  /\ mu # "send"
  /\ dogs' = (dogs (-) SetToBag({"select"})) (+) SetToBag({"lock"})
  /\ UNCHANGED << playing, audioVars, proc, mu, call >>
  /\ AudioFrame

\* ap.mu.Lock() of the default branch.
DogLock ==
  /\ proc = "running"
  /\ BagIn("lock", dogs)
  /\ mu = "free"
  /\ mu' = "dog"
  /\ dogs' = (dogs (-) SetToBag({"lock"})) (+) SetToBag({"check"})
  /\ UNCHANGED << playing, audioVars, proc, call >>
  /\ AudioFrame

\* A faulty watchdog that does not look at the paused flag before it
\* asks the device; C24_AudioTriState must reject it.
DogCheckIgnoresPause(ended) ==
  /\ proc = "running"
  /\ BagIn("check", dogs)
  /\ mu' = "free"
  /\ IF apPlaying /\ ended
     THEN /\ apPlaying' = FALSE
          /\ dogs' = dogs (-) SetToBag({"check"})
     ELSE /\ apPlaying' = apPlaying
          /\ dogs' = (dogs (-) SetToBag({"check"})) (+) SetToBag({"sleep"})
  /\ UNCHANGED << playing, apPaused, proc, call >>
  /\ AudioFrame

\* The default branch under mu: ended tells whether the device reports
\* the track has run to its end.  The goroutine returns, or unlocks and
\* sleeps.
DogCheck(ended) ==
  /\ proc = "running"
  /\ BagIn("check", dogs)
  /\ mu' = "free"
  /\ IF apPlaying /\ ~apPaused /\ ended
     THEN /\ apPlaying' = FALSE
          /\ dogs' = dogs (-) SetToBag({"check"})
     ELSE /\ apPlaying' = apPlaying
          /\ dogs' = (dogs (-) SetToBag({"check"})) (+) SetToBag({"sleep"})
  /\ UNCHANGED << playing, apPaused, proc, call >>
  /\ AudioFrame

DogChecks == \E ended \in BOOLEAN : DogCheck(ended)

\* time.Sleep(100 * time.Millisecond) returns: round the loop to select.
DogWakes ==
  /\ proc = "running"
  /\ BagIn("sleep", dogs)
  /\ dogs' = (dogs (-) SetToBag({"sleep"})) (+) SetToBag({"select"})
  /\ UNCHANGED << playing, audioVars, proc, mu, call >>
  /\ AudioFrame

AudioNext ==
  \/ AudioKeySpace
  \/ AudioKeyReset
  \/ AudioKeyQuit
  \/ CallLock
  \/ CallBody
  \/ DogReceives
  \/ CallReturn
  \/ DogDefault
  \/ DogLock
  \/ DogChecks
  \/ DogWakes

SpecAudio == AudioInit /\ [][AudioNext]_vars

(* ------------------------------------------------ the caption parser *)

\* The engine before any event, a function being applied on its own.
Idle ==
  /\ frames = << >>
  /\ currentFrame = 0
  /\ frameCount = 0
  /\ playing = FALSE
  /\ width = 80
  /\ height = 60
  /\ loading = FALSE
  /\ audioStarted = FALSE
  /\ audioPlayer = "nil"
  /\ audioEnabled = FALSE
  /\ subtitleMode = 0
  /\ currentSubtitle = ""
  /\ showControls = TRUE
  /\ frameChan = << >>
  /\ chanClosed = FALSE
  /\ apPlaying = FALSE
  /\ apPaused = FALSE
  /\ ticks = 0
  /\ polls = 0
  /\ frameMsgs = EmptyBag
  /\ bursts = 0
  /\ listens = 0
  /\ startMsgs = 0
  /\ loaders = EmptyBag
  /\ proc = "running"
  /\ total = MaxFrames
  /\ failAt = 0
  /\ started = 0
  /\ userPaused = FALSE
  /\ cycStart = 0
  /\ cycTicks = 0
  /\ mu = "free"
  /\ call = << >>
  /\ dogs = EmptyBag

\* A line is a string; s[i] is SubSeq(s, i, i).
DigitChars == "0123456789"

IsDigit(c) == \E d \in 0..9 : SubSeq(DigitChars, d + 1, d + 1) = c

DigitVal(c) == CHOOSE d \in 0..9 : SubSeq(DigitChars, d + 1, d + 1) = c

\* The value of a string of digits.
RECURSIVE Decimal(_)
Decimal(s) ==
  IF Len(s) = 0
  THEN 0
  ELSE 10 * Decimal(SubSeq(s, 1, Len(s) - 1))
         + DigitVal(SubSeq(s, Len(s), Len(s)))

\* strconv.Atoi: an optional sign and one digit or more; << err == nil,
\* value >>, the value 0 on a syntax error.
Atoi(s) ==
  LET signed == Len(s) > 0 /\ SubSeq(s, 1, 1) \in {"+", "-"}
      body == IF signed THEN SubSeq(s, 2, Len(s)) ELSE s
      ok == /\ Len(body) > 0
            /\ \A i \in 1..Len(body) : IsDigit(SubSeq(body, i, i))
  IN IF ~ok
     THEN << FALSE, 0 >>
     ELSE << TRUE, IF signed /\ SubSeq(s, 1, 1) = "-"
                   THEN 0 - Decimal(body)
                   ELSE Decimal(body) >>

\* The first position from i on at which sep occurs in s (0: none).
RECURSIVE IndexFrom(_, _, _)
IndexFrom(s, sep, i) ==
  IF i + Len(sep) - 1 > Len(s)
  THEN 0
  ELSE IF SubSeq(s, i, i + Len(sep) - 1) = sep
       THEN i
       ELSE IndexFrom(s, sep, i + 1)

\* strings.Split(s, sep) for a non-empty sep.
RECURSIVE Split(_, _)
Split(s, sep) ==
  LET k == IndexFrom(s, sep, 1)
  IN IF k = 0
     THEN << s >>
     ELSE << SubSeq(s, 1, k - 1) >>
            \o Split(SubSeq(s, k + Len(sep), Len(s)), sep)

\* parseSRTTime, in milliseconds: [panic, err, val].  Indexing secMs[1]
\* of a seconds part without a comma is out of range: a run-time panic.
parseSRTTime(s) ==
  LET parts == Split(s, ":")
  IN IF Len(parts) # 3
     THEN [panic |-> FALSE, err |-> TRUE, val |-> 0]
     ELSE LET secMs == Split(parts[3], ",")
          IN IF Len(secMs) < 2
             THEN [panic |-> TRUE, err |-> FALSE, val |-> 0]
             ELSE [panic |-> FALSE,
                   err |-> FALSE,
                   val |-> 3600000 * Atoi(parts[1])[2]
                             + 60000 * Atoi(parts[2])[2]
                             + 1000 * Atoi(secMs[1])[2]
                             + Atoi(secMs[2])[2]]

\* Subtitle{}
ZeroSubtitle == [ID |-> 0, StartTime |-> 0, EndTime |-> 0, Text |-> ""]

\* ParseSRT before its loop: pos lines scanned.
ParseStart ==
  [pos |-> 0, step |-> 0, current |-> ZeroSubtitle, subtitles |-> << >>,
   panicked |-> FALSE]

\* One iteration of ParseSRT's loop on line, from parser state st.
ScanLine(st, line) ==
  LET at == [st EXCEPT !.pos = st.pos + 1]
  IN CASE st.step = 0 ->
            IF Atoi(line)[1]
            THEN [at EXCEPT !.current.ID = Atoi(line)[2], !.step = 1]
            ELSE at
       [] st.step = 1 ->
            LET parts == Split(line, " --> ")
            IN IF Len(parts) # 2
               THEN at
               ELSE IF parseSRTTime(parts[1]).panic
                       \/ parseSRTTime(parts[2]).panic
                    THEN [at EXCEPT !.panicked = TRUE]
                    ELSE [at EXCEPT
                            !.current.StartTime = parseSRTTime(parts[1]).val,
                            !.current.EndTime = parseSRTTime(parts[2]).val,
                            !.step = 2]
       [] OTHER ->
            IF line = ""
            THEN [at EXCEPT !.subtitles = Append(st.subtitles, st.current),
                            !.current = ZeroSubtitle,
                            !.step = 0]
            ELSE [at EXCEPT !.current.Text =
                              IF st.current.Text # ""
                              THEN st.current.Text \o "\n" \o line
                              ELSE line]

\* A faulty end of ParseSRT that drops an entry the source does not
\* terminate; C16_WellFormedEntries must reject it.
ParseEndDrops(st) == st

\* ParseSRT after its loop: an entry under way with a non-zero ID is
\* appended.
ParseEnd(st) ==
  IF st.current.ID # 0
  THEN [st EXCEPT !.subtitles = Append(st.subtitles, st.current)]
  ELSE st

\* A number as decimal digits, at least width of them.
RECURSIVE Digits(_, _)
Digits(n, w) ==
  IF n < 10 /\ w <= 1
  THEN SubSeq(DigitChars, n + 1, n + 1)
  ELSE Digits(n \div 10, w - 1)
         \o SubSeq(DigitChars, (n % 10) + 1, (n % 10) + 1)

\* t milliseconds as HH:MM:SS,mmm.
Stamp(t) ==
  Digits(t \div 3600000, 2) \o ":" \o Digits((t \div 60000) % 60, 2)
    \o ":" \o Digits((t \div 1000) % 60, 2) \o "," \o Digits(t % 1000, 3)

\* The lines of a caption entry: ordinal, timing, text lines.
EntryLines(e) ==
  << Digits(e.ID, 1), Stamp(e.StartTime) \o " --> " \o Stamp(e.EndTime) >>
    \o e.Lines

\* The lines of a file of entries, a blank line after each but, when
\* term is FALSE, the last.
RECURSIVE FileLines(_, _)
FileLines(es, term) ==
  IF Len(es) = 0
  THEN << >>
  ELSE EntryLines(Head(es))
         \o (IF Len(es) > 1 \/ term THEN << "" >> ELSE << >>)
         \o FileLines(Tail(es), term)

\* The entries the files are made of.
EntryIDs == {0, 1, 12}

EntryTimes == { << 1000, 2500 >>, << 3723004, 3723005 >> }

EntryTexts == { << "a" >>, << "7" >>, << "a", "b c" >> }

Entries ==
  { [ID |-> id, StartTime |-> tm[1], EndTime |-> tm[2], Lines |-> tx] :
      id \in EntryIDs, tm \in EntryTimes, tx \in EntryTexts }

EntryLists == UNION { [1..n -> Entries] : n \in 1..MaxEntries }

\* Lines a file of arbitrary lines is made of.
AnyLines ==
  { "3", "-3", "+3", "x", "",
    "00:00:01,000 --> 00:00:02,500",
    "00:00:01 --> 00:00:02",
    "1:2 --> 3",
    "00:00:01,000 -> 00:00:02,500" }

LineLists == UNION { [1..n -> AnyLines] : n \in 0..MaxLines }

\* A caption file: its lines and, for a well-formed one, its entries.
SrtInit ==
  /\ Idle
  /\ \/ \E es \in EntryLists : \E term \in BOOLEAN :
          arg = [lines |-> FileLines(es, term), entries |-> es,
                 wellFormed |-> TRUE]
     \/ \E ls \in LineLists :
          arg = [lines |-> ls, entries |-> << >>, wellFormed |-> FALSE]
  /\ ret = ParseStart
  /\ done = FALSE

\* for scanner.Scan(): one line.
SrtScan ==
  /\ ~done
  /\ ~ret.panicked
  /\ ret.pos < Len(arg.lines)
  /\ ret' = ScanLine(ret, arg.lines[ret.pos + 1])
  /\ UNCHANGED << engineVars, lockVars, arg, done >>

\* The loop has ended: ParseSRT returns.
SrtReturn ==
  /\ ~done
  /\ ~ret.panicked
  /\ ret.pos = Len(arg.lines)
  /\ ret' = ParseEnd(ret)
  /\ done' = TRUE
  /\ UNCHANGED << engineVars, lockVars, arg >>

SrtNext == SrtScan \/ SrtReturn

SpecSRT == SrtInit /\ [][SrtNext]_vars

(* ------------------------------------------ ticks across the intro end *)

\* A ready-playing engine with IntroFrames frames, the cursor anywhere,
\* in any subtitle mode, the queue open and empty while the background
\* loader is busy rendering the next frame.
ControlsInit ==
  \E c \in 0..(IntroFrames - 1) : \E mode \in 0..2 :
    /\ frames = [i \in 1..IntroFrames |-> i]
    /\ currentFrame = c
    /\ frameCount = IntroFrames
    /\ playing = TRUE
    /\ width = 80
    /\ height = 60
    /\ loading = TRUE
    /\ audioStarted = FALSE
    /\ audioPlayer = "nil"
    /\ audioEnabled = FALSE
    /\ subtitleMode = mode
    /\ currentSubtitle = Caption(c, mode)
    /\ showControls = Controls(c)
    /\ frameChan = << >>
    /\ chanClosed = FALSE
    /\ apPlaying = FALSE
    /\ apPaused = FALSE
    /\ ticks = 1
    /\ polls = 0
    /\ frameMsgs = EmptyBag
    /\ bursts = 0
    /\ listens = 0
    /\ startMsgs = 0
    /\ loaders = SetToBag({IntroFrames + 1})
    /\ proc = "running"
    /\ total = IntroFrames + 1
    /\ failAt = 0
    /\ started = 1
    /\ userPaused = FALSE
    /\ cycStart = c
    /\ cycTicks = 0
    /\ mu = "free"
    /\ call = << >>
    /\ dogs = EmptyBag
    /\ arg = 0
    /\ ret = 0
    /\ done = FALSE

\* One tick from each starting cursor, its poll finding the queue empty.
ControlsTick ==
  /\ cycTicks = 0
  /\ CycleTick

ControlsNext == ControlsTick

SpecControls == ControlsInit /\ [][ControlsNext]_vars

(* ------------------------------------------------------ the rasterizer *)

\* The glyphs of pixelRuneSingle: U+2588, U+2593, U+2592, U+2591 and the
\* space.
Glyphs == << "full", "dark", "medium", "light", "space" >>

\* A faulty glyph mapping whose first band takes 32 in;
\* C19_GlyphBands must reject it.
pixelRuneSingleInclusive(pixel) ==
  CASE pixel <= 32 -> Glyphs[1]
    [] pixel < 64 -> Glyphs[2]
    [] pixel < 96 -> Glyphs[3]
    [] pixel < 128 -> Glyphs[4]
    [] pixel < 192 -> Glyphs[5]
    [] OTHER -> Glyphs[5]

\* pixelRuneSingle: the switch, its cases taken in order.
pixelRuneSingle(pixel) ==
  CASE pixel < 32 -> Glyphs[1]
    [] pixel >= 32 /\ pixel < 64 -> Glyphs[2]
    [] pixel >= 64 /\ pixel < 96 -> Glyphs[3]
    [] pixel >= 96 /\ pixel < 128 -> Glyphs[4]
    [] pixel >= 128 /\ pixel < 192 -> Glyphs[5]
    [] OTHER -> Glyphs[5]

\* A uint8 luminance.
GlyphInit ==
  /\ Idle
  /\ arg \in 0..255
  /\ ret = ""
  /\ done = FALSE

\* pixelRuneSingle(arg) returns.
GlyphApply ==
  /\ ~done
  /\ ret' = pixelRuneSingle(arg)
  /\ done' = TRUE
  /\ UNCHANGED << engineVars, lockVars, arg >>

GlyphNext == GlyphApply

SpecGlyph == GlyphInit /\ [][GlyphNext]_vars

\* The luminances a source image is made of.
Lums == {0, 100, 255}

RECURSIVE Pow2(_)
Pow2(k) == IF k = 0 THEN 1 ELSE 2 * Pow2(k - 1)

TargetDims == { Pow2(k) : k \in 0..MaxDoublings }

\* A source coordinate of the upscale branch, float64(x) * float64(srcW)
\* / float64(targetW), as the fraction << x * srcW, targetW >>.
SrcCoord(x, src, target) == << x * src, target >>

\* bilinearInterpolate at x = xc[1]/xc[2], y = yc[1]/yc[2]: the uint8
\* conversion of the blend truncates.
bilinearInterpolate(img, xc, yc, maxW, maxH) ==
  LET x0 == xc[1] \div xc[2]
      y0 == yc[1] \div yc[2]
      x1 == IF x0 + 1 >= maxW THEN maxW - 1 ELSE x0 + 1
      y1 == IF y0 + 1 >= maxH THEN maxH - 1 ELSE y0 + 1
      p00 == img[<< x0, y0 >>]
      p01 == img[<< x0, y1 >>]
      p10 == img[<< x1, y0 >>]
      p11 == img[<< x1, y1 >>]
      fx == xc[1] % xc[2]
      fy == yc[1] % yc[2]
      num == p00 * (xc[2] - fx) * (yc[2] - fy) + p10 * fx * (yc[2] - fy)
               + p01 * (xc[2] - fx) * fy + p11 * fx * fy
  IN num \div (xc[2] * yc[2])

\* The nearest-neighbour branch of renderBlocksScaled for cell (x, y).
NearestPixel(img, srcW, srcH, targetW, targetH, x, y) ==
  LET sx == (x * srcW) \div targetW
      sy == (y * srcH) \div targetH
  IN img[<< IF sx >= srcW THEN srcW - 1 ELSE sx,
            IF sy >= srcH THEN srcH - 1 ELSE sy >>]

\* renderBlocksScaled: the luminance chosen for cell (x, y).
CellPixel(img, srcW, srcH, targetW, targetH, x, y) ==
  IF targetW < srcW \/ targetH < srcH
  THEN NearestPixel(img, srcW, srcH, targetW, targetH, x, y)
  ELSE bilinearInterpolate(img, SrcCoord(x, srcW, targetW),
                           SrcCoord(y, srcH, targetH), srcW, srcH)

\* A source image, a target size and a cell of the target grid.
RasterInit ==
  /\ Idle
  /\ \E srcW \in 1..MaxSrc : \E srcH \in 1..MaxSrc :
     \E targetW \in TargetDims : \E targetH \in TargetDims :
     \E x \in 0..(targetW - 1) : \E y \in 0..(targetH - 1) :
     \E img \in [(0..(srcW - 1)) \X (0..(srcH - 1)) -> Lums] :
       arg = [img |-> img, srcW |-> srcW, srcH |-> srcH,
              targetW |-> targetW, targetH |-> targetH, x |-> x, y |-> y]
  /\ ret = [pixel |-> 0, glyph |-> ""]
  /\ done = FALSE

\* The body of renderBlocksScaled's loops for the cell.
RasterCell ==
  /\ ~done
  /\ LET pixel == CellPixel(arg.img, arg.srcW, arg.srcH, arg.targetW,
                            arg.targetH, arg.x, arg.y)
     IN ret' = [pixel |-> pixel, glyph |-> pixelRuneSingle(pixel)]
  /\ done' = TRUE
  /\ UNCHANGED << engineVars, lockVars, arg >>

RasterNext == RasterCell

SpecRaster == RasterInit /\ [][RasterNext]_vars

(* =============================================================== claims *)

\* The 0-based position of the last frame of the sequence that is a
\* rendered source frame (-1: none).
LastAvailable ==
  LET real == { i \in 1..Len(frames) : frames[i] # EmptyFrame }
  IN IF real = {} THEN -1
     ELSE (CHOOSE i \in real : \A j \in real : j <= i) - 1

\* C1: whenever frameCount > 0, the cursor lies in [0, frameCount).
C1_CursorInRange ==
  frameCount > 0 => (0 <= currentFrame /\ currentFrame < frameCount)

\* C2: the frame sequence is exactly the source frames 1..frameCount in
\* order: position i (counted from 1) holds source frame i.
C2_FramesInOrder ==
  /\ frameCount = Len(frames)
  /\ \A i \in 1..Len(frames) : frames[i] = i

\* C3: if frame k = failAt fails to load, the frame count never exceeds
\* k - 1 and the frames held are source frames 1.. in order.
C3_CountBelowFailure ==
  failAt >= 1 =>
    /\ frameCount <= failAt - 1
    /\ \A i \in 1..Len(frames) : frames[i] = i

\* Frames appended or on their way to the frame sequence: in the
\* sequence, in the queue, or carried by a message in flight.
Pending == frameCount + Len(frameChan) + BagCardinality(frameMsgs)

\* C4: once the loader has closed the queue, no tick, queue poll or frame
\* arrival adds a frame to those already appended or on their way, so the
\* frame count stops growing; and the frame count never exceeds the
\* number of frames on disk.
C4_NoGrowthAfterClose ==
  [][ /\ (chanClosed /\ (TickAdvance \/ TickIdle \/ WaitForFrame
                          \/ FrameLoadedMsg))
          => Pending' = Pending
      /\ frameCount' <= total ]_vars

\* C5: with more than BurstSize loadable frames and the size known, the
\* burst-complete event leaves BurstSize frames (a non-empty sequence
\* holds at least the burst), and if from some point on playback stays in
\* playing (the user does not quit) the frame count reaches the number of
\* frames on disk.
C5_CountReachesTotal ==
  (total > BurstSize /\ failAt = 0) =>
    /\ [](frameCount > 0 => frameCount >= BurstSize)
    /\ (<>(started > 0) /\ <>[](playing /\ proc # "quit"))
         => <>(frameCount = total)

\* C6: the video loops over the available frames: the tick taken at the
\* last available frame moves the cursor to 0.
C6_WrapAfterLastFrame ==
  [][ (TickAdvance /\ currentFrame = LastAvailable) => currentFrame' = 0 ]_vars

\* C7: in a run of ticks over a fixed frame count F from cursor c, the
\* cursor after n ticks is (c + n) mod F, so after F ticks it is c again.
C7_CyclicAdvance ==
  /\ currentFrame = (cycStart + cycTicks) % frameCount
  /\ cycTicks = frameCount => currentFrame = cycStart

\* C7 witness: a run of F > 1 ticks from a cursor other than 0 has ended.
C7_Witness ==
  /\ frameCount > 1
  /\ cycStart > 0
  /\ cycTicks = frameCount
  /\ currentFrame = cycStart

\* C8: a reset that Update completes sets the cursor to 0 and leaves the
\* play state, the subtitle mode, the frame sequence and the frame count
\* as they were.
C8_ResetEffect ==
  [][ KeyReset =>
        /\ currentFrame' = 0
        /\ UNCHANGED << playing, subtitleMode, frames, frameCount >> ]_vars

\* C8 witness: playing, at cursor 0 with the caption of cursor 1 still
\* stored: only a reset leaves the cursor at 0 without recomputing the
\* caption.
C8_Witness ==
  /\ playing
  /\ frameCount > 1
  /\ currentFrame = 0
  /\ subtitleMode = 1
  /\ currentSubtitle = "ja1"

\* C9 as stated: a tick delivered while paused or without frames changes
\* neither cursor, caption nor controls flag and re-arms nothing; and
\* between a pause command and the next play command the cursor changes
\* only through reset.
C9_Original ==
  [][ /\ TickIdle =>
           /\ UNCHANGED << currentFrame, currentSubtitle, showControls >>
           /\ ticks' = ticks - 1
           /\ polls' = polls
      /\ (userPaused /\ userPaused' /\ currentFrame' # currentFrame)
           => KeyReset ]_vars

\* C9 amended: a tick delivered while paused or without frames changes
\* neither cursor, caption nor controls flag and re-arms nothing; the
\* cursor changes only by a tick taken while playing with frames or by
\* reset; and between a pause command and the next play command or
\* burst-complete event (the play state stays paused) only by reset.
C9_PausedCursor ==
  [][ /\ TickIdle =>
           /\ UNCHANGED << currentFrame, currentSubtitle, showControls >>
           /\ ticks' = ticks - 1
           /\ polls' = polls
      /\ currentFrame' # currentFrame =>
           \/ KeyReset
           \/ (playing /\ frameCount > 0 /\ TickAdvance)
      /\ (~playing /\ ~playing' /\ currentFrame' # currentFrame)
           => KeyReset ]_vars

\* C9 witness: paused by command in a ready state, away from cursor 0,
\* the tick that was armed delivered and not re-armed.
C9_Witness ==
  /\ userPaused
  /\ ~playing
  /\ frameCount > 1
  /\ currentFrame > 0
  /\ ticks = 0

\* C10: the subtitle-mode command moves the mode off -> languageA ->
\* languageB -> off, empties the caption, and leaves the cursor, the play
\* state and the frame sequence as they were.
C10_SubtitleCycle ==
  [][ KeySubtitle =>
        /\ subtitleMode' = CASE subtitleMode = 0 -> 1
                             [] subtitleMode = 1 -> 2
                             [] OTHER -> 0
        /\ currentSubtitle' = ""
        /\ UNCHANGED << currentFrame, playing, frames, frameCount >> ]_vars

\* C10 witness: languageB at cursor 1, where an entry matches, with the
\* caption empty: the command has just cleared it.
C10_Witness ==
  /\ frameCount > 1
  /\ currentFrame = 1
  /\ subtitleMode = 2
  /\ Caption(currentFrame, subtitleMode) # ""
  /\ currentSubtitle = ""

\* A method holds mu, blocked at its send on stopChan or resumeChan, and
\* the monitorPlayback goroutine that is to receive waits for mu.
AudioDeadlock == mu = "send" /\ BagIn("lock", dogs)

\* C11: every audio command the clock issues returns: no reachable state
\* has a command holding the audio lock while it waits to hand a signal
\* to the watchdog and the watchdog waiting for that same lock.
C11_CommandsReturn == ~AudioDeadlock

\* The audio sounds: IsPlaying of audio.go.
Sounding == apPlaying /\ ~apPaused

\* C12: once the audio session exists, every processed event other than
\* the track running to its end leaves the audio sounding if and only if
\* the clock's play state is playing, provided it found them so or
\* created the session; and after a reset the audio sounds if and only
\* if the clock plays.
C12_AudioMirrorsClock ==
  [][ /\ ( /\ audioPlayer' = "open"
           /\ proc' = "running"
           /\ ~AudioFinished
           /\ audioPlayer = "open" => (Sounding <=> playing) )
        => (Sounding' <=> playing')
      /\ (KeyReset /\ audioPlayer = "open") => (Sounding' <=> playing') ]_vars

\* C13: the audio session is created only by a burst-complete event of an
\* engine with audio enabled that has not attempted it before; every
\* burst-complete event with audio enabled leaves the attempt marked as
\* made, whether it succeeded or not; once marked, no later event
\* creates or replaces the session; with audio disabled there is never a
\* session.
C13_AudioOnce ==
  [][ /\ audioPlayer' # audioPlayer =>
           /\ FramesLoadedMsg
           /\ audioEnabled /\ ~audioStarted /\ audioPlayer = "nil"
      /\ (FramesLoadedMsg /\ audioEnabled) => audioStarted'
      /\ audioStarted => (audioStarted' /\ audioPlayer' = audioPlayer)
      /\ ~audioEnabled => (audioPlayer' = "nil" /\ ~audioStarted') ]_vars

\* C13 witness: audio enabled, the creation failed at the first
\* burst-complete event, and a second burst-complete event has been
\* processed without another attempt.
C13_Witness ==
  /\ audioEnabled
  /\ audioStarted
  /\ audioPlayer = "nil"
  /\ started = 2
  /\ bursts = 0
  /\ frameCount > 0

\* C14: the initial burst load and the background loader are each
\* started at most once: loading is begun at most once, at most one
\* burst-complete event is on its way, and the queue has at most one
\* producer, started or about to be.
C14_LoadersStartedOnce ==
  /\ started <= 1
  /\ bursts <= 1
  /\ listens + BagCardinality(loaders) <= 1

\* The entries of the list of language mode whose interval contains t,
\* both ends included.
Containing(mode, t) ==
  LET subs == IF mode = 1 THEN SubtitlesJA ELSE SubtitlesEN
  IN { i \in 1..Len(subs) : subs[i].StartTime <= t /\ t <= subs[i].EndTime }

\* The text of the lowest-index entry containing t, or empty.
LowestContaining(mode, t) ==
  LET subs == IF mode = 1 THEN SubtitlesJA ELSE SubtitlesEN
      hits == Containing(mode, t)
  IN IF hits = {}
     THEN ""
     ELSE subs[CHOOSE i \in hits : \A j \in hits : i <= j].Text

\* C15: after every tick with a language active the caption is the text
\* of the lowest-index entry of that language whose interval contains the
\* elapsed time, ends included, or empty when there is none; with
\* subtitle mode off the caption is always empty.
C15_CaptionFirstMatch ==
  /\ [](subtitleMode = 0 => currentSubtitle = "")
  /\ [][ TickAdvance =>
           currentSubtitle' =
             IF subtitleMode' = 0
             THEN ""
             ELSE LowestContaining(subtitleMode', VideoTime(currentFrame'))
       ]_vars

\* C15 witness: languageA at an elapsed time that two entries contain,
\* the second of them ending later: the caption is the first one's.
C15_Witness ==
  /\ subtitleMode = 1
  /\ Cardinality(Containing(1, VideoTime(currentFrame))) = 2
  /\ currentSubtitle = SubtitlesJA[1].Text
  /\ playing

\* The text lines of an entry joined with a newline.
RECURSIVE Joined(_)
Joined(ls) ==
  IF Len(ls) = 1
  THEN ls[1]
  ELSE Joined(SubSeq(ls, 1, Len(ls) - 1)) \o "\n" \o ls[Len(ls)]

\* What a parse of the entries es is to return.
Emitted(es) ==
  [i \in 1..Len(es) |->
     [ID |-> es[i].ID, StartTime |-> es[i].StartTime,
      EndTime |-> es[i].EndTime, Text |-> Joined(es[i].Lines)]]

\* The last line of the file is a blank line.
Terminated == arg.lines[Len(arg.lines)] = ""

\* C16 as stated: for every well-formed file, the last entry terminated
\* or not, ParseSRT returns one entry per source entry, in order, with
\* its ordinal, its times in milliseconds and its text lines joined.
C16_Original ==
  (arg.wellFormed /\ done) =>
    (~ret.panicked /\ ret.subtitles = Emitted(arg.entries))

\* C16 amended: the same for every well-formed file whose last entry is
\* terminated or has a non-zero ordinal.
C16_WellFormedEntries ==
  ( /\ arg.wellFormed
    /\ done
    /\ Terminated \/ arg.entries[Len(arg.entries)].ID # 0 )
    => (~ret.panicked /\ ret.subtitles = Emitted(arg.entries))

\* C16 witness: a file of two entries, one of two text lines, the last
\* with a non-zero ordinal and no terminator, has been parsed into two
\* entries.
C16_Witness ==
  /\ arg.wellFormed
  /\ done
  /\ Len(arg.entries) = 2
  /\ ~Terminated
  /\ arg.entries[2].ID # 0
  /\ Len(arg.entries[1].Lines) = 2
  /\ Len(ret.subtitles) = 2

\* A bare non-negative integer: one digit or more and nothing else.
IsBareNat(s) ==
  Len(s) > 0 /\ \A i \in 1..Len(s) : IsDigit(SubSeq(s, i, i))

\* C17: no line makes the parse abort; where an ordinal is expected a
\* line that is not a bare non-negative integer is ignored and the
\* parser stays in state 0; where a timing line is expected a line
\* without the separator is ignored and the parser stays in state 1.
C17_ParserTotal ==
  [][ SrtScan =>
        LET line == arg.lines[ret.pos + 1]
            ignored == /\ ret'.step = ret.step
                       /\ ret'.current = ret.current
                       /\ ret'.subtitles = ret.subtitles
        IN /\ ~ret'.panicked
           /\ (ret.step = 0 /\ ~IsBareNat(line)) => ignored
           /\ (ret.step = 1 /\ IndexFrom(line, " --> ", 1) = 0) => ignored
    ]_vars

\* Cursor c at the nominal 60 frames per second lies before ms
\* milliseconds: c * (1000/60) < ms.
NominalBefore(c, ms) == c * 1000 < ms * 60

\* C18: after every tick the controls flag is true if and only if the
\* elapsed video time, cursor * (1000/60) ms at 60 frames per second, is
\* below 14600 ms, in every subtitle mode.
C18_ControlsIntroWindow ==
  cycTicks > 0 => (showControls <=> NominalBefore(currentFrame, IntroMs))

\* How much of its cell a glyph inks: the full block most, the space
\* nothing.
Density(g) == 5 - (CHOOSE i \in 1..5 : Glyphs[i] = g)

\* C19: the glyph of a luminance is the full block below 32, the dark
\* shade for 32..63, the medium shade for 64..95, the light shade for
\* 96..127 and the space for 128..255; and no darker luminance has a
\* less dense glyph.
C19_GlyphBands ==
  done =>
    /\ arg \in 0..31 => ret = "full"
    /\ arg \in 32..63 => ret = "dark"
    /\ arg \in 64..95 => ret = "medium"
    /\ arg \in 96..127 => ret = "light"
    /\ arg \in 128..255 => ret = "space"
    /\ \A q \in 0..arg : Density(pixelRuneSingle(q)) >= Density(ret)

\* C19 witness: the luminance 32, the lowest of the second band, has been
\* mapped to the dark shade.
C19_Witness ==
  /\ done
  /\ arg = 32
  /\ ret = "dark"

\* The bilinear blend for the cell of arg, as << numerator, denominator
\* >>: the four neighbours of (x * srcW / targetW, y * srcH / targetH),
\* the +1 neighbour clamped to the last column and row, weighted
\* (1-fx)(1-fy), fx(1-fy), (1-fx)fy, fx fy.
Blend ==
  LET x0 == (arg.x * arg.srcW) \div arg.targetW
      y0 == (arg.y * arg.srcH) \div arg.targetH
      x1 == IF x0 + 1 > arg.srcW - 1 THEN arg.srcW - 1 ELSE x0 + 1
      y1 == IF y0 + 1 > arg.srcH - 1 THEN arg.srcH - 1 ELSE y0 + 1
      fx == (arg.x * arg.srcW) % arg.targetW
      fy == (arg.y * arg.srcH) % arg.targetH
      gx == arg.targetW - fx
      gy == arg.targetH - fy
  IN << arg.img[<< x0, y0 >>] * gx * gy + arg.img[<< x1, y0 >>] * fx * gy
          + arg.img[<< x0, y1 >>] * gx * fy + arg.img[<< x1, y1 >>] * fx * fy,
        arg.targetW * arg.targetH >>

\* n is an integer nearest to the fraction q (either one at a tie).
Nearest(n, q) ==
  LET d == n * q[2] - q[1]
  IN 2 * (IF d < 0 THEN 0 - d ELSE d) <= q[2]

\* C20: in the upscale case the luminance chosen for a cell is the
\* bilinear blend of the four neighbouring source pixels rounded to the
\* nearest integer.
C20_BilinearRounded ==
  (done /\ arg.targetW >= arg.srcW /\ arg.targetH >= arg.srcH)
    => Nearest(ret.pixel, Blend)

\* C21: at most one tick is armed (scheduled and not yet handled) at any
\* time, whatever the interleaving of play/pause commands, the
\* burst-complete event and tick delivery.  Stated for the runs in which
\* loading was begun once, so that a second burst-complete event is not
\* what arms the second tick.
C21_OneTickArmed == started <= 1 => ticks <= 1

\* C22: playback never stalls: whenever the clock is playing with
\* frameCount > 0 in a running engine, a tick is armed.  Stated for the
\* runs in which loading was begun once.
C22_TickArmedWhilePlaying ==
  (started <= 1 /\ proc = "running" /\ playing /\ frameCount > 0)
    => ticks > 0

\* C23: in every ready state the stored caption is empty or the
\* first-match caption of the active language at the elapsed time of the
\* cursor, and the controls flag tells whether that time is inside the
\* intro window.  Stated for the runs in which loading was begun once.
C23_CaptionOfCursor ==
  (started <= 1 /\ frameCount > 0)
    => /\ currentSubtitle \in {"", Caption(currentFrame, subtitleMode)}
       /\ showControls = Controls(currentFrame)

\* C24: in every state of an audio session the paused flag is set only
\* while the playing flag is set (the status is stopped, playing or
\* paused), and a step of the watchdog that changes the flags goes from
\* playing-and-not-paused to stopped.
C24_AudioTriState ==
  /\ [](apPaused => apPlaying)
  /\ [][(DogChecks /\ << apPlaying, apPaused >>' # << apPlaying, apPaused >>)
          => (apPlaying /\ ~apPaused /\ ~apPlaying' /\ ~apPaused')]_vars

\* The watchdog has found the track at its end and gone: the clock plays,
\* no audio call is under way, and the player is stopped with no
\* watchdog left.
C24_Witness ==
  /\ proc = "running"
  /\ playing
  /\ call = << >>
  /\ mu = "free"
  /\ ~apPlaying
  /\ ~apPaused
  /\ dogs = EmptyBag

====
